---------------------------- MODULE Spec2Model ----------------------------
(***************************************************************************)
(* Model of create_feature_classes_system_integration.py: thirteen         *)
(* create_databases_* procedures, the add_fields helper and the __main__   *)
(* block, run against a geodatabase whose calls may succeed or raise.      *)
(*                                                                         *)
(* A procedure body is the sequence of its statements, in source order.    *)
(* One step of the model executes one statement (one iteration of the      *)
(* add_fields loop).  Nothing in the file catches an exception, so a call  *)
(* that raises ends the run.                                               *)
(***************************************************************************)
EXTENDS Integers, Sequences, FiniteSets, TLC

VARIABLES
  gdb,          \* the geodatabase: dataset path -> feature class state
  status,       \* "idle" | "main" | "direct" | "done" (the run has ended
                \* normally) | "raised" (an exception has ended it)
  mainip,       \* index of the next statement of __main__ (0: not running)
  proc,         \* the function being executed, or "none"
  args,         \* <<table, fields_spec>> of a direct add_fields call, else <<>>
  ip,           \* index of the next statement of proc
  i,            \* number of field_specs the add_fields loop has consumed
  calls,        \* geodatabase calls issued by the current invocation, in order
  messages,     \* everything written with AddMessage / AddWarning, in order
  exc,          \* the exception that ended the run, or NoException
  invocations,  \* number of direct invocations made in this run
  created       \* datasets on which a CreateFeatureclass of this run succeeded

vars == <<gdb, status, mainip, proc, args, ip, i, calls, messages, exc,
          invocations, created>>

\* Bounds of the exploration.
MaxInvocations == 2     \* direct invocations in one run
MaxLen == 2             \* length of fields_spec in a direct add_fields call
PriorRows == 1          \* rows held by a feature class that pre-exists the run

(***************************************************************************)
(* Constants                                                               *)
(***************************************************************************)
OUTPUT_GEODATABASE == "Database Connections\\orcl$gis.sde"
UTM_16N_NAD83 == 26916

\* os.path.join on the platform ArcGIS runs on (ntpath), for a relative
\* second component.
os_path_join(a, b) == IF a = "" THEN b ELSE a \o "\\" \o b

(***************************************************************************)
(* Statements                                                              *)
(***************************************************************************)
AddMessage(message) == [op |-> "AddMessage", message |-> message]
AddWarning(message) == [op |-> "AddWarning", message |-> message]

CreateFeatureclass_management(out_path, out_name, geometry_type, spatial_reference) ==
  [op |-> "CreateFeatureclass", out_path |-> out_path, out_name |-> out_name,
   geometry_type |-> geometry_type, spatial_reference |-> spatial_reference]

AddField_management(in_table, field_name, field_type, field_precision, field_scale, field_length, field_alias, field_is_nullable, field_is_required, field_domain) ==
  [op |-> "AddField", in_table |-> in_table, field_name |-> field_name,
   field_type |-> field_type, field_precision |-> field_precision,
   field_scale |-> field_scale, field_length |-> field_length,
   field_alias |-> field_alias, field_is_nullable |-> field_is_nullable,
   field_is_required |-> field_is_required, field_domain |-> field_domain]

AddIndex_management(in_table, fields, index_name) ==
  [op |-> "AddIndex", in_table |-> in_table, fields |-> fields,
   index_name |-> index_name]

ChangePrivileges_management(in_dataset, user, View, Edit) ==
  [op |-> "ChangePrivileges", in_dataset |-> in_dataset, user |-> user,
   View |-> View, Edit |-> Edit]

\* The call statement 'add_fields(table = ..., fields_spec = ...)'.
add_fields(table, fields_spec) ==
  [op |-> "add_fields", table |-> table, fields_spec |-> fields_spec]

\* A call of a create procedure from __main__.
call(f) == [op |-> "call", f |-> f]

(***************************************************************************)
(* Feature class names, column lists and procedure bodies                  *)
(***************************************************************************)

FC_NAME_ERP == "GIS.DATABASES_ERP"
FC_NAME_ERP_SITE == "GIS.DATABASES_ERP_SITE"
FC_NAME_ERP_SITE_40A_4 == "GIS.DATABASES_ERP_SITE_40A_4"
FC_NAME_ERP_SITE_40A_44 == "GIS.DATABASES_ERP_SITE_40A_44"
FC_NAME_ERP_SITE_62_330 == "GIS.DATABASES_ERP_SITE_62_330"
FC_NAME_ERP_SITE_FORESTRY == "GIS.DATABASES_ERP_SITE_FORESTRY"
FC_NAME_MSSW == "GIS.DATABASES_MSSW"
FC_NAME_REG_STATION == "GIS.DATABASES_REG_STATION"
FC_NAME_WI == "GIS.DATABASES_WELL_INVENTORY"
FC_NAME_WPS == "GIS.DATABASES_WELL_PERMITS"
FC_NAME_WUP_PERMITTED == "GIS.DATABASES_WUP_PERMITTED"
FC_NAME_WUP_SURFACE == "GIS.DATABASES_WUP_SURFACE"
FC_NAME_WUP_WELLS == "GIS.DATABASES_WUP_WELLS"

fc_erp == os_path_join(OUTPUT_GEODATABASE, FC_NAME_ERP)
fields_spec_erp ==
  << <<"application_number", "DOUBLE", "", "", "", "", TRUE, "", "">>
  ,  <<"permit_number", "DOUBLE", "", "", "", "", TRUE, "", "">>
  ,  <<"legacy_permit_number", "TEXT", "", "", 35, "", TRUE, "", "">>
  ,  <<"applicant_first_name", "TEXT", "", "", 30, "", TRUE, "", "">>
  ,  <<"applicant_last_name", "TEXT", "", "", 30, "", TRUE, "", "">>
  ,  <<"applicant_company_name", "TEXT", "", "", 150, "", TRUE, "", "">>
  ,  <<"project_name", "TEXT", "", "", 200, "", TRUE, "", "">>
  ,  <<"project_address", "TEXT", "", "", 1000, "", TRUE, "", "">>
  ,  <<"issue_date", "DATE", "", "", "", "", TRUE, "", "">>
  ,  <<"expiration_date", "DATE", "", "", "", "", TRUE, "", "">>
  ,  <<"rule_type", "TEXT", "", "", 17, "", TRUE, "", "">>
  >>
\* create_databases_erp granting edit as well as view.
create_databases_erp_grant_edit ==
  << AddMessage("\n\nCreating feature class " \o FC_NAME_ERP)
  ,  CreateFeatureclass_management(OUTPUT_GEODATABASE, FC_NAME_ERP, "POINT", UTM_16N_NAD83)
  ,  AddMessage("\tAdding fields")
  ,  add_fields(fc_erp, fields_spec_erp)
  ,  AddMessage("\tGranting privileges")
  ,  ChangePrivileges_management(fc_erp, "GIS_READ", "GRANT", "GRANT")
  >>

create_databases_erp ==
  << AddMessage("\n\nCreating feature class " \o FC_NAME_ERP)
  ,  CreateFeatureclass_management(OUTPUT_GEODATABASE, FC_NAME_ERP, "POINT", UTM_16N_NAD83)
  ,  AddMessage("\tAdding fields")
  ,  add_fields(fc_erp, fields_spec_erp)
  ,  AddMessage("\tGranting privileges")
  ,  ChangePrivileges_management(fc_erp, "GIS_READ", "GRANT", "AS_IS")
  >>

fc_erp_site == os_path_join(OUTPUT_GEODATABASE, FC_NAME_ERP_SITE)
fields_spec_erp_site ==
  << <<"site_id", "DOUBLE", "", "", "", "", TRUE, "", "">>
  ,  <<"permit_number", "DOUBLE", "", "", "", "", TRUE, "", "">>
  ,  <<"project_number", "TEXT", "", "", 50, "", TRUE, "", "">>
  ,  <<"permit_type", "TEXT", "", "", 8, "", TRUE, "", "">>
  ,  <<"county_fips", "TEXT", "", "", 8, "", TRUE, "", "">>
  ,  <<"official_permit_number", "TEXT", "", "", 8, "", TRUE, "", "">>
  ,  <<"sequence_number", "TEXT", "", "", 8, "", TRUE, "", "">>
  ,  <<"application_status", "TEXT", "", "", 100, "", TRUE, "", "">>
  ,  <<"rule_code", "TEXT", "", "", 100, "", TRUE, "", "">>
  ,  <<"rule_description", "TEXT", "", "", 200, "", TRUE, "", "">>
  ,  <<"project_name", "TEXT", "", "", 200, "", TRUE, "", "">>
  ,  <<"project_county", "TEXT", "", "", 20, "", TRUE, "", "">>
  ,  <<"site_location", "TEXT", "", "", 1000, "", TRUE, "", "">>
  ,  <<"party_role", "TEXT", "", "", 100, "", TRUE, "", "">>
  ,  <<"party_company_name", "TEXT", "", "", 150, "", TRUE, "", "">>
  ,  <<"party_first_name", "TEXT", "", "", 30, "", TRUE, "", "">>
  ,  <<"party_last_name", "TEXT", "", "", 30, "", TRUE, "", "">>
  ,  <<"expiration_date", "DATE", "", "", "", "", TRUE, "", "">>
  ,  <<"issue_date", "DATE", "", "", "", "", TRUE, "", "">>
  ,  <<"review_date", "DATE", "", "", "", "", TRUE, "", "">>
  ,  <<"legacy_permit_number", "TEXT", "", "", 35, "", TRUE, "", "">>
  ,  <<"item_number", "DOUBLE", "", "", "", "", TRUE, "", "">>
  ,  <<"item_type", "TEXT", "", "", 100, "", TRUE, "", "">>
  ,  <<"item_stage", "TEXT", "", "", 100, "", TRUE, "", "">>
  >>
\* create_databases_erp_site granting on the dataset of create_databases_erp.
create_databases_erp_site_wrong_dataset ==
  << AddMessage("\n\nCreating feature class " \o FC_NAME_ERP_SITE)
  ,  CreateFeatureclass_management(OUTPUT_GEODATABASE, FC_NAME_ERP_SITE, "POINT", UTM_16N_NAD83)
  ,  AddMessage("\tAdding fields")
  ,  add_fields(fc_erp_site, fields_spec_erp_site)
  ,  AddMessage("\tGranting privileges")
  ,  ChangePrivileges_management(fc_erp, "GIS_READ", "GRANT", "AS_IS")
  >>

create_databases_erp_site ==
  << AddMessage("\n\nCreating feature class " \o FC_NAME_ERP_SITE)
  ,  CreateFeatureclass_management(OUTPUT_GEODATABASE, FC_NAME_ERP_SITE, "POINT", UTM_16N_NAD83)
  ,  AddMessage("\tAdding fields")
  ,  add_fields(fc_erp_site, fields_spec_erp_site)
  ,  AddMessage("\tGranting privileges")
  ,  ChangePrivileges_management(fc_erp_site, "GIS_READ", "GRANT", "AS_IS")
  >>

fc_erp_site_40a_4 == os_path_join(OUTPUT_GEODATABASE, FC_NAME_ERP_SITE_40A_4)
fields_spec_erp_site_40a_4 ==
  << <<"site_id", "DOUBLE", "", "", "", "", TRUE, "", "">>
  ,  <<"permit_number", "DOUBLE", "", "", "", "", TRUE, "", "">>
  ,  <<"project_number", "TEXT", "", "", 50, "", TRUE, "", "">>
  ,  <<"permit_type", "TEXT", "", "", 8, "", TRUE, "", "">>
  ,  <<"county_fips", "TEXT", "", "", 8, "", TRUE, "", "">>
  ,  <<"official_permit_number", "TEXT", "", "", 8, "", TRUE, "", "">>
  ,  <<"sequence_number", "TEXT", "", "", 8, "", TRUE, "", "">>
  ,  <<"application_status", "TEXT", "", "", 100, "", TRUE, "", "">>
  ,  <<"rule_code", "TEXT", "", "", 100, "", TRUE, "", "">>
  ,  <<"rule_description", "TEXT", "", "", 200, "", TRUE, "", "">>
  ,  <<"project_name", "TEXT", "", "", 200, "", TRUE, "", "">>
  ,  <<"project_county", "TEXT", "", "", 20, "", TRUE, "", "">>
  ,  <<"site_location", "TEXT", "", "", 1000, "", TRUE, "", "">>
  ,  <<"expiration_date", "DATE", "", "", "", "", TRUE, "", "">>
  ,  <<"issue_date", "DATE", "", "", "", "", TRUE, "", "">>
  ,  <<"review_date", "DATE", "", "", "", "", TRUE, "", "">>
  ,  <<"legacy_permit_number", "TEXT", "", "", 35, "", TRUE, "", "">>
  ,  <<"item_number", "DOUBLE", "", "", "", "", TRUE, "", "">>
  ,  <<"item_type", "TEXT", "", "", 100, "", TRUE, "", "">>
  ,  <<"item_stage", "TEXT", "", "", 100, "", TRUE, "", "">>
  >>
create_databases_erp_site_40a_4 ==
  << AddMessage("\n\nCreating feature class " \o FC_NAME_ERP_SITE_40A_4)
  ,  CreateFeatureclass_management(OUTPUT_GEODATABASE, FC_NAME_ERP_SITE_40A_4, "POINT", UTM_16N_NAD83)
  ,  AddMessage("\tAdding fields")
  ,  add_fields(fc_erp_site_40a_4, fields_spec_erp_site_40a_4)
  ,  AddMessage("\tGranting privileges")
  ,  ChangePrivileges_management(fc_erp_site_40a_4, "GIS_READ", "GRANT", "AS_IS")
  >>

fc_erp_site_40a_44 == os_path_join(OUTPUT_GEODATABASE, FC_NAME_ERP_SITE_40A_44)
fields_spec_erp_site_40a_44 ==
  << <<"site_id", "DOUBLE", "", "", "", "", TRUE, "", "">>
  ,  <<"permit_number", "DOUBLE", "", "", "", "", TRUE, "", "">>
  ,  <<"project_number", "TEXT", "", "", 50, "", TRUE, "", "">>
  ,  <<"permit_type", "TEXT", "", "", 8, "", TRUE, "", "">>
  ,  <<"county_fips", "TEXT", "", "", 8, "", TRUE, "", "">>
  ,  <<"official_permit_number", "TEXT", "", "", 8, "", TRUE, "", "">>
  ,  <<"sequence_number", "TEXT", "", "", 8, "", TRUE, "", "">>
  ,  <<"application_status", "TEXT", "", "", 100, "", TRUE, "", "">>
  ,  <<"rule_code", "TEXT", "", "", 100, "", TRUE, "", "">>
  ,  <<"rule_description", "TEXT", "", "", 200, "", TRUE, "", "">>
  ,  <<"project_name", "TEXT", "", "", 200, "", TRUE, "", "">>
  ,  <<"project_county", "TEXT", "", "", 20, "", TRUE, "", "">>
  ,  <<"site_location", "TEXT", "", "", 1000, "", TRUE, "", "">>
  ,  <<"expiration_date", "DATE", "", "", "", "", TRUE, "", "">>
  ,  <<"issue_date", "DATE", "", "", "", "", TRUE, "", "">>
  ,  <<"review_date", "DATE", "", "", "", "", TRUE, "", "">>
  ,  <<"legacy_permit_number", "TEXT", "", "", 35, "", TRUE, "", "">>
  ,  <<"item_number", "DOUBLE", "", "", "", "", TRUE, "", "">>
  ,  <<"item_type", "TEXT", "", "", 100, "", TRUE, "", "">>
  ,  <<"item_stage", "TEXT", "", "", 100, "", TRUE, "", "">>
  >>
create_databases_erp_site_40a_44 ==
  << AddMessage("\n\nCreating feature class " \o FC_NAME_ERP_SITE_40A_44)
  ,  CreateFeatureclass_management(OUTPUT_GEODATABASE, FC_NAME_ERP_SITE_40A_44, "POINT", UTM_16N_NAD83)
  ,  AddMessage("\tAdding fields")
  ,  add_fields(fc_erp_site_40a_44, fields_spec_erp_site_40a_44)
  ,  AddMessage("\tGranting privileges")
  ,  ChangePrivileges_management(fc_erp_site_40a_44, "GIS_READ", "GRANT", "AS_IS")
  >>

fc_erp_site_62_330 == os_path_join(OUTPUT_GEODATABASE, FC_NAME_ERP_SITE_62_330)
fields_spec_erp_site_62_330 ==
  << <<"site_id", "DOUBLE", "", "", "", "", TRUE, "", "">>
  ,  <<"permit_number", "DOUBLE", "", "", "", "", TRUE, "", "">>
  ,  <<"project_number", "TEXT", "", "", 50, "", TRUE, "", "">>
  ,  <<"permit_type", "TEXT", "", "", 8, "", TRUE, "", "">>
  ,  <<"county_fips", "TEXT", "", "", 8, "", TRUE, "", "">>
  ,  <<"official_permit_number", "TEXT", "", "", 8, "", TRUE, "", "">>
  ,  <<"sequence_number", "TEXT", "", "", 8, "", TRUE, "", "">>
  ,  <<"application_status", "TEXT", "", "", 100, "", TRUE, "", "">>
  ,  <<"rule_code", "TEXT", "", "", 100, "", TRUE, "", "">>
  ,  <<"rule_description", "TEXT", "", "", 200, "", TRUE, "", "">>
  ,  <<"project_name", "TEXT", "", "", 200, "", TRUE, "", "">>
  ,  <<"project_county", "TEXT", "", "", 20, "", TRUE, "", "">>
  ,  <<"site_location", "TEXT", "", "", 1000, "", TRUE, "", "">>
  ,  <<"expiration_date", "DATE", "", "", "", "", TRUE, "", "">>
  ,  <<"issue_date", "DATE", "", "", "", "", TRUE, "", "">>
  ,  <<"review_date", "DATE", "", "", "", "", TRUE, "", "">>
  ,  <<"legacy_permit_number", "TEXT", "", "", 35, "", TRUE, "", "">>
  ,  <<"item_number", "DOUBLE", "", "", "", "", TRUE, "", "">>
  ,  <<"item_type", "TEXT", "", "", 100, "", TRUE, "", "">>
  ,  <<"item_stage", "TEXT", "", "", 100, "", TRUE, "", "">>
  >>
create_databases_erp_site_62_330 ==
  << AddMessage("\n\nCreating feature class " \o FC_NAME_ERP_SITE_62_330)
  ,  CreateFeatureclass_management(OUTPUT_GEODATABASE, FC_NAME_ERP_SITE_62_330, "POINT", UTM_16N_NAD83)
  ,  AddMessage("\tAdding fields")
  ,  add_fields(fc_erp_site_62_330, fields_spec_erp_site_62_330)
  ,  AddMessage("\tGranting privileges")
  ,  ChangePrivileges_management(fc_erp_site_62_330, "GIS_READ", "GRANT", "AS_IS")
  >>

fc_erp_site_forestry == os_path_join(OUTPUT_GEODATABASE, FC_NAME_ERP_SITE_FORESTRY)
\* fields_spec of create_databases_erp_site_forestry without review_date.
fields_spec_erp_site_forestry_no_review_date ==
  << <<"site_id", "DOUBLE", "", "", "", "", TRUE, "", "">>
  ,  <<"permit_number", "DOUBLE", "", "", "", "", TRUE, "", "">>
  ,  <<"project_number", "TEXT", "", "", 50, "", TRUE, "", "">>
  ,  <<"permit_type", "TEXT", "", "", 8, "", TRUE, "", "">>
  ,  <<"county_fips", "TEXT", "", "", 8, "", TRUE, "", "">>
  ,  <<"official_permit_number", "TEXT", "", "", 8, "", TRUE, "", "">>
  ,  <<"sequence_number", "TEXT", "", "", 8, "", TRUE, "", "">>
  ,  <<"application_status", "TEXT", "", "", 100, "", TRUE, "", "">>
  ,  <<"rule_code", "TEXT", "", "", 100, "", TRUE, "", "">>
  ,  <<"rule_description", "TEXT", "", "", 200, "", TRUE, "", "">>
  ,  <<"project_name", "TEXT", "", "", 200, "", TRUE, "", "">>
  ,  <<"project_county", "TEXT", "", "", 20, "", TRUE, "", "">>
  ,  <<"site_location", "TEXT", "", "", 1000, "", TRUE, "", "">>
  ,  <<"expiration_date", "DATE", "", "", "", "", TRUE, "", "">>
  ,  <<"issue_date", "DATE", "", "", "", "", TRUE, "", "">>
  ,  <<"legacy_permit_number", "TEXT", "", "", 35, "", TRUE, "", "">>
  ,  <<"item_number", "DOUBLE", "", "", "", "", TRUE, "", "">>
  ,  <<"item_type", "TEXT", "", "", 100, "", TRUE, "", "">>
  ,  <<"item_stage", "TEXT", "", "", 100, "", TRUE, "", "">>
  >>

fields_spec_erp_site_forestry ==
  << <<"site_id", "DOUBLE", "", "", "", "", TRUE, "", "">>
  ,  <<"permit_number", "DOUBLE", "", "", "", "", TRUE, "", "">>
  ,  <<"project_number", "TEXT", "", "", 50, "", TRUE, "", "">>
  ,  <<"permit_type", "TEXT", "", "", 8, "", TRUE, "", "">>
  ,  <<"county_fips", "TEXT", "", "", 8, "", TRUE, "", "">>
  ,  <<"official_permit_number", "TEXT", "", "", 8, "", TRUE, "", "">>
  ,  <<"sequence_number", "TEXT", "", "", 8, "", TRUE, "", "">>
  ,  <<"application_status", "TEXT", "", "", 100, "", TRUE, "", "">>
  ,  <<"rule_code", "TEXT", "", "", 100, "", TRUE, "", "">>
  ,  <<"rule_description", "TEXT", "", "", 200, "", TRUE, "", "">>
  ,  <<"project_name", "TEXT", "", "", 200, "", TRUE, "", "">>
  ,  <<"project_county", "TEXT", "", "", 20, "", TRUE, "", "">>
  ,  <<"site_location", "TEXT", "", "", 1000, "", TRUE, "", "">>
  ,  <<"expiration_date", "DATE", "", "", "", "", TRUE, "", "">>
  ,  <<"issue_date", "DATE", "", "", "", "", TRUE, "", "">>
  ,  <<"review_date", "DATE", "", "", "", "", TRUE, "", "">>
  ,  <<"legacy_permit_number", "TEXT", "", "", 35, "", TRUE, "", "">>
  ,  <<"item_number", "DOUBLE", "", "", "", "", TRUE, "", "">>
  ,  <<"item_type", "TEXT", "", "", 100, "", TRUE, "", "">>
  ,  <<"item_stage", "TEXT", "", "", 100, "", TRUE, "", "">>
  >>
create_databases_erp_site_forestry ==
  << AddMessage("\n\nCreating feature class " \o FC_NAME_ERP_SITE_FORESTRY)
  ,  CreateFeatureclass_management(OUTPUT_GEODATABASE, FC_NAME_ERP_SITE_FORESTRY, "POINT", UTM_16N_NAD83)
  ,  AddMessage("\tAdding fields")
  ,  add_fields(fc_erp_site_forestry, fields_spec_erp_site_forestry)
  ,  AddMessage("\tGranting privileges")
  ,  ChangePrivileges_management(fc_erp_site_forestry, "GIS_READ", "GRANT", "AS_IS")
  >>

fc_mssw == os_path_join(OUTPUT_GEODATABASE, FC_NAME_MSSW)
fields_spec_mssw ==
  << <<"permit_number", "TEXT", "", "", 35, "", TRUE, "", "">>
  ,  <<"appl_first_name", "TEXT", "", "", 30, "", TRUE, "", "">>
  ,  <<"appl_last_name", "TEXT", "", "", 30, "", TRUE, "", "">>
  ,  <<"applicant_company_name", "TEXT", "", "", 150, "", TRUE, "", "">>
  ,  <<"project_name", "TEXT", "", "", 200, "", TRUE, "", "">>
  ,  <<"appl_received", "DATE", "", "", "", "", TRUE, "", "">>
  >>
\* create_databases_mssw granting the privilege before adding the columns.
create_databases_mssw_privileges_first ==
  << AddMessage("\n\nCreating feature class " \o FC_NAME_MSSW)
  ,  CreateFeatureclass_management(OUTPUT_GEODATABASE, FC_NAME_MSSW, "POINT", UTM_16N_NAD83)
  ,  AddMessage("\tGranting privileges")
  ,  ChangePrivileges_management(fc_mssw, "GIS_READ", "GRANT", "AS_IS")
  ,  AddMessage("\tAdding fields")
  ,  add_fields(fc_mssw, fields_spec_mssw)
  >>

create_databases_mssw ==
  << AddMessage("\n\nCreating feature class " \o FC_NAME_MSSW)
  ,  CreateFeatureclass_management(OUTPUT_GEODATABASE, FC_NAME_MSSW, "POINT", UTM_16N_NAD83)
  ,  AddMessage("\tAdding fields")
  ,  add_fields(fc_mssw, fields_spec_mssw)
  ,  AddMessage("\tGranting privileges")
  ,  ChangePrivileges_management(fc_mssw, "GIS_READ", "GRANT", "AS_IS")
  >>

fc_reg_station == os_path_join(OUTPUT_GEODATABASE, FC_NAME_REG_STATION)
\* fields_spec of create_databases_reg_station with location_method left at 30.
fields_spec_reg_station_location_method_30 ==
  << <<"station_id", "TEXT", "", "", 50, "", TRUE, "", "">>
  ,  <<"project_number", "TEXT", "", "", 50, "", TRUE, "", "">>
  ,  <<"permit_type", "TEXT", "", "", 8, "", TRUE, "", "">>
  ,  <<"county_fips", "TEXT", "", "", 8, "", TRUE, "", "">>
  ,  <<"official_permit_number", "TEXT", "", "", 8, "", TRUE, "", "">>
  ,  <<"sequence_number", "TEXT", "", "", 8, "", TRUE, "", "">>
  ,  <<"fluwid", "TEXT", "", "", 50, "", TRUE, "", "">>
  ,  <<"station_type", "TEXT", "", "", 100, "", TRUE, "", "">>
  ,  <<"monitoring_well_type", "TEXT", "", "", 100, "", TRUE, "", "">>
  ,  <<"station_name", "TEXT", "", "", 50, "", TRUE, "", "">>
  ,  <<"station_status", "TEXT", "", "", 100, "", TRUE, "", "">>
  ,  <<"water_source_type", "TEXT", "", "", 100, "", TRUE, "", "">>
  ,  <<"water_source_name", "TEXT", "", "", 100, "", TRUE, "", "">>
  ,  <<"meter_type", "TEXT", "", "", 100, "", TRUE, "", "">>
  ,  <<"diameter", "DOUBLE", "", "", "", "", TRUE, "", "">>
  ,  <<"casing_depth", "DOUBLE", "", "", "", "", TRUE, "", "">>
  ,  <<"well_depth", "DOUBLE", "", "", "", "", TRUE, "", "">>
  ,  <<"pump_rate", "DOUBLE", "", "", "", "", TRUE, "", "">>
  ,  <<"pumping_report", "TEXT", "", "", 7, "", TRUE, "", "">>
  ,  <<"wq_mi", "TEXT", "", "", 7, "", TRUE, "", "">>
  ,  <<"wq_lp", "TEXT", "", "", 7, "", TRUE, "", "">>
  ,  <<"wl_gw", "TEXT", "", "", 7, "", TRUE, "", "">>
  ,  <<"station_county", "TEXT", "", "", 20, "", TRUE, "", "">>
  ,  <<"station_location", "TEXT", "", "", 1000, "", TRUE, "", "">>
  ,  <<"location_method", "TEXT", "", "", 30, "", TRUE, "", "">>
  ,  <<"project_primary_use", "TEXT", "", "", 100, "", TRUE, "", "">>
  ,  <<"project_secondary_use", "TEXT", "", "", 100, "", TRUE, "", "">>
  ,  <<"water_use_level_1", "TEXT", "", "", 100, "", TRUE, "", "">>
  ,  <<"water_use_level_2", "TEXT", "", "", 100, "", TRUE, "", "">>
  ,  <<"water_use_level_3", "TEXT", "", "", 100, "", TRUE, "", "">>
  ,  <<"water_use_level_4", "TEXT", "", "", 100, "", TRUE, "", "">>
  ,  <<"station_allocation_gpd", "TEXT", "", "", 100, "", TRUE, "", "">>
  ,  <<"project_allocation_gpd", "DOUBLE", "", "", "", "", TRUE, "", "">>
  ,  <<"project_allocation_monthly", "DOUBLE", "", "", "", "", TRUE, "", "">>
  ,  <<"application_status", "TEXT", "", "", 100, "", TRUE, "", "">>
  ,  <<"expiration_date", "DATE", "", "", "", "", TRUE, "", "">>
  ,  <<"owner_company_name", "TEXT", "", "", 150, "", TRUE, "", "">>
  ,  <<"owner_first_name", "TEXT", "", "", 30, "", TRUE, "", "">>
  ,  <<"owner_last_name", "TEXT", "", "", 30, "", TRUE, "", "">>
  ,  <<"legacy_apnum", "DOUBLE", "", "", "", "", TRUE, "", "">>
  ,  <<"legacy_permit_number", "TEXT", "", "", 35, "", TRUE, "", "">>
  ,  <<"nwf_id", "DOUBLE", "", "", "", "", TRUE, "", "">>
  ,  <<"wps_permit", "TEXT", "", "", 50, "", TRUE, "", "">>
  >>

fields_spec_reg_station ==
  << <<"station_id", "TEXT", "", "", 50, "", TRUE, "", "">>
  ,  <<"project_number", "TEXT", "", "", 50, "", TRUE, "", "">>
  ,  <<"permit_type", "TEXT", "", "", 8, "", TRUE, "", "">>
  ,  <<"county_fips", "TEXT", "", "", 8, "", TRUE, "", "">>
  ,  <<"official_permit_number", "TEXT", "", "", 8, "", TRUE, "", "">>
  ,  <<"sequence_number", "TEXT", "", "", 8, "", TRUE, "", "">>
  ,  <<"fluwid", "TEXT", "", "", 50, "", TRUE, "", "">>
  ,  <<"station_type", "TEXT", "", "", 100, "", TRUE, "", "">>
  ,  <<"monitoring_well_type", "TEXT", "", "", 100, "", TRUE, "", "">>
  ,  <<"station_name", "TEXT", "", "", 50, "", TRUE, "", "">>
  ,  <<"station_status", "TEXT", "", "", 100, "", TRUE, "", "">>
  ,  <<"water_source_type", "TEXT", "", "", 100, "", TRUE, "", "">>
  ,  <<"water_source_name", "TEXT", "", "", 100, "", TRUE, "", "">>
  ,  <<"meter_type", "TEXT", "", "", 100, "", TRUE, "", "">>
  ,  <<"diameter", "DOUBLE", "", "", "", "", TRUE, "", "">>
  ,  <<"casing_depth", "DOUBLE", "", "", "", "", TRUE, "", "">>
  ,  <<"well_depth", "DOUBLE", "", "", "", "", TRUE, "", "">>
  ,  <<"pump_rate", "DOUBLE", "", "", "", "", TRUE, "", "">>
  ,  <<"pumping_report", "TEXT", "", "", 7, "", TRUE, "", "">>
  ,  <<"wq_mi", "TEXT", "", "", 7, "", TRUE, "", "">>
  ,  <<"wq_lp", "TEXT", "", "", 7, "", TRUE, "", "">>
  ,  <<"wl_gw", "TEXT", "", "", 7, "", TRUE, "", "">>
  ,  <<"station_county", "TEXT", "", "", 20, "", TRUE, "", "">>
  ,  <<"station_location", "TEXT", "", "", 1000, "", TRUE, "", "">>
  ,  <<"location_method", "TEXT", "", "", 16, "", TRUE, "", "">>
  ,  <<"project_primary_use", "TEXT", "", "", 100, "", TRUE, "", "">>
  ,  <<"project_secondary_use", "TEXT", "", "", 100, "", TRUE, "", "">>
  ,  <<"water_use_level_1", "TEXT", "", "", 100, "", TRUE, "", "">>
  ,  <<"water_use_level_2", "TEXT", "", "", 100, "", TRUE, "", "">>
  ,  <<"water_use_level_3", "TEXT", "", "", 100, "", TRUE, "", "">>
  ,  <<"water_use_level_4", "TEXT", "", "", 100, "", TRUE, "", "">>
  ,  <<"station_allocation_gpd", "TEXT", "", "", 100, "", TRUE, "", "">>
  ,  <<"project_allocation_gpd", "DOUBLE", "", "", "", "", TRUE, "", "">>
  ,  <<"project_allocation_monthly", "DOUBLE", "", "", "", "", TRUE, "", "">>
  ,  <<"application_status", "TEXT", "", "", 100, "", TRUE, "", "">>
  ,  <<"expiration_date", "DATE", "", "", "", "", TRUE, "", "">>
  ,  <<"owner_company_name", "TEXT", "", "", 150, "", TRUE, "", "">>
  ,  <<"owner_first_name", "TEXT", "", "", 30, "", TRUE, "", "">>
  ,  <<"owner_last_name", "TEXT", "", "", 30, "", TRUE, "", "">>
  ,  <<"legacy_apnum", "DOUBLE", "", "", "", "", TRUE, "", "">>
  ,  <<"legacy_permit_number", "TEXT", "", "", 35, "", TRUE, "", "">>
  ,  <<"nwf_id", "DOUBLE", "", "", "", "", TRUE, "", "">>
  ,  <<"wps_permit", "TEXT", "", "", 50, "", TRUE, "", "">>
  >>
create_databases_reg_station ==
  << AddMessage("\n\nCreating feature class " \o FC_NAME_REG_STATION)
  ,  CreateFeatureclass_management(OUTPUT_GEODATABASE, FC_NAME_REG_STATION, "POINT", UTM_16N_NAD83)
  ,  AddMessage("\tAdding fields")
  ,  add_fields(fc_reg_station, fields_spec_reg_station)
  ,  AddMessage("\tCreating indexes")
  ,  AddIndex_management(fc_reg_station, "FLUWID", FC_NAME_REG_STATION \o "__I1")
  ,  AddIndex_management(fc_reg_station, "LEGACY_PERMIT_NUMBER", FC_NAME_REG_STATION \o "__I2")
  ,  AddMessage("\tGranting privileges")
  ,  ChangePrivileges_management(fc_reg_station, "GIS_READ", "GRANT", "AS_IS")
  >>

fc_wi == os_path_join(OUTPUT_GEODATABASE, FC_NAME_WI)
fields_spec_well_inventory ==
  << <<"nwf_id", "LONG", "", "", "", "", TRUE, "", "">>
  ,  <<"site_id", "TEXT", "", "", 15, "", TRUE, "", "">>
  ,  <<"site_type", "TEXT", "", "", 1, "", TRUE, "", "">>
  ,  <<"well_name", "TEXT", "", "", 50, "", TRUE, "", "">>
  ,  <<"first_name", "TEXT", "", "", 30, "", TRUE, "", "">>
  ,  <<"last_name", "TEXT", "", "", 50, "", TRUE, "", "">>
  ,  <<"well_depth", "LONG", "", "", "", "", TRUE, "", "">>
  ,  <<"casing_depth", "LONG", "", "", "", "", TRUE, "", "">>
  ,  <<"use_permit", "LONG", "", "", "", "", TRUE, "", "">>
  ,  <<"cps_permit", "TEXT", "", "", 10, "", TRUE, "", "">>
  ,  <<"state_id", "TEXT", "", "", 7, "", TRUE, "", "">>
  ,  <<"spcap", "DOUBLE", "", "", "", "", TRUE, "", "">>
  ,  <<"calc_trans", "LONG", "", "", "", "", TRUE, "", "">>
  ,  <<"loc_method", "TEXT", "", "", 30, "", TRUE, "", "">>
  >>
\* create_databases_well_inventory creating its indexes after the grant.
create_databases_well_inventory_indexes_last ==
  << AddMessage("\n\nCreating feature class " \o FC_NAME_WI)
  ,  CreateFeatureclass_management(OUTPUT_GEODATABASE, FC_NAME_WI, "POINT", UTM_16N_NAD83)
  ,  AddMessage("\tAdding fields")
  ,  add_fields(fc_wi, fields_spec_well_inventory)
  ,  AddMessage("\tGranting privileges")
  ,  ChangePrivileges_management(fc_wi, "GIS_READ", "GRANT", "AS_IS")
  ,  AddMessage("\tCreating indexes")
  ,  AddIndex_management(fc_wi, "NWF_ID", FC_NAME_WI \o "__I1")
  ,  AddIndex_management(fc_wi, "STATE_ID", FC_NAME_WI \o "__I2")
  >>

create_databases_well_inventory ==
  << AddMessage("\n\nCreating feature class " \o FC_NAME_WI)
  ,  CreateFeatureclass_management(OUTPUT_GEODATABASE, FC_NAME_WI, "POINT", UTM_16N_NAD83)
  ,  AddMessage("\tAdding fields")
  ,  add_fields(fc_wi, fields_spec_well_inventory)
  ,  AddMessage("\tCreating indexes")
  ,  AddIndex_management(fc_wi, "NWF_ID", FC_NAME_WI \o "__I1")
  ,  AddIndex_management(fc_wi, "STATE_ID", FC_NAME_WI \o "__I2")
  ,  AddMessage("\tGranting privileges")
  ,  ChangePrivileges_management(fc_wi, "GIS_READ", "GRANT", "AS_IS")
  >>

fc_wps == os_path_join(OUTPUT_GEODATABASE, FC_NAME_WPS)
fields_spec_well_permits ==
  << <<"permit_number", "TEXT", "", "", 50, "", TRUE, "", "">>
  ,  <<"legacy_permit_number", "TEXT", "", "", 35, "", TRUE, "", "">>
  ,  <<"related_permit_1", "TEXT", "", "", 50, "", TRUE, "", "">>
  ,  <<"related_permit_2", "TEXT", "", "", 50, "", TRUE, "", "">>
  ,  <<"job_type", "TEXT", "", "", 100, "", TRUE, "", "">>
  ,  <<"status", "TEXT", "", "", 200, "", TRUE, "", "">>
  ,  <<"official_id", "LONG", "", "", "", "", TRUE, "", "">>
  ,  <<"issue_date", "DATE", "", "", "", "", TRUE, "", "">>
  ,  <<"expiration_date", "DATE", "", "", "", "", TRUE, "", "">>
  ,  <<"completion_date", "DATE", "", "", "", "", TRUE, "", "">>
  ,  <<"exemption", "TEXT", "", "", 7, "", TRUE, "", "">>
  ,  <<"owner_first", "TEXT", "", "", 30, "", TRUE, "", "">>
  ,  <<"owner_last", "TEXT", "", "", 30, "", TRUE, "", "">>
  ,  <<"well_use", "TEXT", "", "", 100, "", TRUE, "", "">>
  ,  <<"diameter", "DOUBLE", "", "", "", "", TRUE, "", "">>
  ,  <<"appl_well_depth", "DOUBLE", "", "", "", "", TRUE, "", "">>
  ,  <<"appl_casing_depth", "DOUBLE", "", "", "", "", TRUE, "", "">>
  ,  <<"wcr_well_depth", "DOUBLE", "", "", "", "", TRUE, "", "">>
  ,  <<"wcr_casing_depth", "DOUBLE", "", "", "", "", TRUE, "", "">>
  ,  <<"open_hole_from", "DOUBLE", "", "", "", "", TRUE, "", "">>
  ,  <<"open_hole_to", "DOUBLE", "", "", "", "", TRUE, "", "">>
  ,  <<"screen_from", "DOUBLE", "", "", "", "", TRUE, "", "">>
  ,  <<"screen_to", "DOUBLE", "", "", "", "", TRUE, "", "">>
  ,  <<"well_street", "TEXT", "", "", 60, "", TRUE, "", "">>
  ,  <<"well_street_2", "TEXT", "", "", 50, "", TRUE, "", "">>
  ,  <<"well_city", "TEXT", "", "", 30, "", TRUE, "", "">>
  ,  <<"well_county", "TEXT", "", "", 20, "", TRUE, "", "">>
  ,  <<"parcel_id", "TEXT", "", "", 50, "", TRUE, "", "">>
  ,  <<"latitude", "DOUBLE", "", "", "", "", TRUE, "", "">>
  ,  <<"longitude", "DOUBLE", "", "", "", "", TRUE, "", "">>
  ,  <<"township", "TEXT", "", "", 3, "", TRUE, "", "">>
  ,  <<"range", "TEXT", "", "", 3, "", TRUE, "", "">>
  ,  <<"section", "SHORT", "", "", "", "", TRUE, "", "">>
  ,  <<"cu_permit", "TEXT", "", "", 50, "", TRUE, "", "">>
  ,  <<"fluwid", "TEXT", "", "", 50, "", TRUE, "", "">>
  ,  <<"location_method", "TEXT", "", "", 16, "", TRUE, "", "">>
  ,  <<"contractor_license", "LONG", "", "", "", "", TRUE, "", "">>
  ,  <<"contractor_name", "TEXT", "", "", 70, "", TRUE, "", "">>
  ,  <<"wrca", "TEXT", "", "", 7, "", TRUE, "", "">>
  ,  <<"arc", "TEXT", "", "", 7, "", TRUE, "", "">>
  ,  <<"grout_line", "TEXT", "", "", 100, "", TRUE, "", "">>
  ,  <<"construction_method", "TEXT", "", "", 100, "", TRUE, "", "">>
  ,  <<"w62_524", "TEXT", "", "", 7, "", TRUE, "", "">>
  ,  <<"stn_id", "LONG", "", "", "", "", TRUE, "", "">>
  >>
\* create_databases_well_permits indexing RELATED_PERMIT, the column that was
\* split into related_permit_1 and related_permit_2.
create_databases_well_permits_index_related_permit ==
  << AddMessage("\n\nCreating feature class " \o FC_NAME_WPS)
  ,  CreateFeatureclass_management(OUTPUT_GEODATABASE, FC_NAME_WPS, "POINT", UTM_16N_NAD83)
  ,  AddMessage("\tAdding fields")
  ,  add_fields(fc_wps, fields_spec_well_permits)
  ,  AddMessage("\tCreating indexes")
  ,  AddIndex_management(fc_wps, "FLUWID", FC_NAME_WPS \o "__I1")
  ,  AddIndex_management(fc_wps, "RELATED_PERMIT", FC_NAME_WPS \o "__I2")
  ,  AddMessage("\tGranting privileges")
  ,  ChangePrivileges_management(fc_wps, "GIS_READ", "GRANT", "AS_IS")
  >>

create_databases_well_permits ==
  << AddMessage("\n\nCreating feature class " \o FC_NAME_WPS)
  ,  CreateFeatureclass_management(OUTPUT_GEODATABASE, FC_NAME_WPS, "POINT", UTM_16N_NAD83)
  ,  AddMessage("\tAdding fields")
  ,  add_fields(fc_wps, fields_spec_well_permits)
  ,  AddMessage("\tCreating indexes")
  ,  AddIndex_management(fc_wps, "FLUWID", FC_NAME_WPS \o "__I1")
  ,  AddIndex_management(fc_wps, "PERMIT_NUMBER", FC_NAME_WPS \o "__I2")
  ,  AddMessage("\tGranting privileges")
  ,  ChangePrivileges_management(fc_wps, "GIS_READ", "GRANT", "AS_IS")
  >>

fc_wup == os_path_join(OUTPUT_GEODATABASE, FC_NAME_WUP_PERMITTED)
\* fields_spec of create_databases_wup_permitted with permit_number as FLOAT.
fields_spec_wup_permitted_float ==
  << <<"permit_number", "FLOAT", "", "", "", "", TRUE, "", "">>
  ,  <<"owner_first_name", "TEXT", "", "", 20, "", TRUE, "", "">>
  ,  <<"owner_last_name", "TEXT", "", "", 40, "", TRUE, "", "">>
  ,  <<"project_name", "TEXT", "", "", 80, "", TRUE, "", "">>
  ,  <<"issue_date", "DATE", "", "", "", "", TRUE, "", "">>
  ,  <<"expiration_date", "DATE", "", "", "", "", TRUE, "", "">>
  ,  <<"rule_type", "TEXT", "", "", 15, "", TRUE, "", "">>
  >>

fields_spec_wup_permitted ==
  << <<"permit_number", "LONG", "", "", "", "", TRUE, "", "">>
  ,  <<"owner_first_name", "TEXT", "", "", 20, "", TRUE, "", "">>
  ,  <<"owner_last_name", "TEXT", "", "", 40, "", TRUE, "", "">>
  ,  <<"project_name", "TEXT", "", "", 80, "", TRUE, "", "">>
  ,  <<"issue_date", "DATE", "", "", "", "", TRUE, "", "">>
  ,  <<"expiration_date", "DATE", "", "", "", "", TRUE, "", "">>
  ,  <<"rule_type", "TEXT", "", "", 15, "", TRUE, "", "">>
  >>
create_databases_wup_permitted ==
  << AddMessage("\n\nCreating feature class " \o FC_NAME_WUP_PERMITTED)
  ,  CreateFeatureclass_management(OUTPUT_GEODATABASE, FC_NAME_WUP_PERMITTED, "POINT", UTM_16N_NAD83)
  ,  AddMessage("\tAdding fields")
  ,  add_fields(fc_wup, fields_spec_wup_permitted)
  ,  AddMessage("\tGranting privileges")
  ,  ChangePrivileges_management(fc_wup, "GIS_READ", "GRANT", "AS_IS")
  >>

fc_wup_surf == os_path_join(OUTPUT_GEODATABASE, FC_NAME_WUP_SURFACE)
fields_spec_wup_surface ==
  << <<"cu_apnum", "DOUBLE", "", "", "", "", TRUE, "", "">>
  ,  <<"cu_permit", "TEXT", "", "", 35, "", TRUE, "", "">>
  ,  <<"ownerlast", "TEXT", "", "", 30, "", TRUE, "", "">>
  ,  <<"ownerfirst", "TEXT", "", "", 30, "", TRUE, "", "">>
  ,  <<"address", "TEXT", "", "", 500, "", TRUE, "", "">>
  ,  <<"pmtmaxmonthly", "DOUBLE", "", "", "", "", TRUE, "", "">>
  ,  <<"pmtavggpd", "DOUBLE", "", "", "", "", TRUE, "", "">>
  ,  <<"primaryuse", "TEXT", "", "", 100, "", TRUE, "", "">>
  ,  <<"other_uses", "TEXT", "", "", 100, "", TRUE, "", "">>
  ,  <<"expire_date", "DATE", "", "", "", "", TRUE, "", "">>
  ,  <<"swstateid", "TEXT", "", "", 50, "", TRUE, "", "">>
  ,  <<"swkey", "DOUBLE", "", "", "", "", TRUE, "", "">>
  ,  <<"loc_method", "TEXT", "", "", 100, "", TRUE, "", "">>
  >>
create_databases_wup_surface ==
  << AddMessage("\n\nCreating feature class " \o FC_NAME_WUP_SURFACE)
  ,  CreateFeatureclass_management(OUTPUT_GEODATABASE, FC_NAME_WUP_SURFACE, "POINT", UTM_16N_NAD83)
  ,  AddMessage("\tAdding fields")
  ,  add_fields(fc_wup_surf, fields_spec_wup_surface)
  ,  AddMessage("\tGranting privileges")
  ,  ChangePrivileges_management(fc_wup_surf, "GIS_READ", "GRANT", "AS_IS")
  >>

fc_wup_wells == os_path_join(OUTPUT_GEODATABASE, FC_NAME_WUP_WELLS)
fields_spec_wup_wells ==
  << <<"cu_apnum", "DOUBLE", "", "", "", "", TRUE, "", "">>
  ,  <<"cu_permit", "TEXT", "", "", 35, "", TRUE, "", "">>
  ,  <<"ownerlast", "TEXT", "", "", 30, "", TRUE, "", "">>
  ,  <<"ownerfirst", "TEXT", "", "", 30, "", TRUE, "", "">>
  ,  <<"address", "TEXT", "", "", 500, "", TRUE, "", "">>
  ,  <<"diameter", "DOUBLE", "", "", "", "", TRUE, "", "">>
  ,  <<"pmtmaxgpd", "DOUBLE", "", "", "", "", TRUE, "", "">>
  ,  <<"pmtavggpd", "DOUBLE", "", "", "", "", TRUE, "", "">>
  ,  <<"primaryuse", "TEXT", "", "", 100, "", TRUE, "", "">>
  ,  <<"other_uses", "TEXT", "", "", 100, "", TRUE, "", "">>
  ,  <<"expire_date", "DATE", "", "", "", "", TRUE, "", "">>
  ,  <<"fluwid", "TEXT", "", "", 50, "", TRUE, "", "">>
  ,  <<"wps_permit", "TEXT", "", "", 10, "", TRUE, "", "">>
  ,  <<"nwf_id", "DOUBLE", "", "", "", "", TRUE, "", "">>
  ,  <<"well_key", "DOUBLE", "", "", "", "", TRUE, "", "">>
  ,  <<"loc_method", "TEXT", "", "", 100, "", TRUE, "", "">>
  >>
\* create_databases_wup_wells asking for a polygon feature class.
create_databases_wup_wells_polygon ==
  << AddMessage("\n\nCreating feature class " \o FC_NAME_WUP_WELLS)
  ,  CreateFeatureclass_management(OUTPUT_GEODATABASE, FC_NAME_WUP_WELLS, "POLYGON", UTM_16N_NAD83)
  ,  AddMessage("\tAdding fields")
  ,  add_fields(fc_wup_wells, fields_spec_wup_wells)
  ,  AddMessage("\tGranting privileges")
  ,  ChangePrivileges_management(fc_wup_wells, "GIS_READ", "GRANT", "AS_IS")
  >>

create_databases_wup_wells ==
  << AddMessage("\n\nCreating feature class " \o FC_NAME_WUP_WELLS)
  ,  CreateFeatureclass_management(OUTPUT_GEODATABASE, FC_NAME_WUP_WELLS, "POINT", UTM_16N_NAD83)
  ,  AddMessage("\tAdding fields")
  ,  add_fields(fc_wup_wells, fields_spec_wup_wells)
  ,  AddMessage("\tGranting privileges")
  ,  ChangePrivileges_management(fc_wup_wells, "GIS_READ", "GRANT", "AS_IS")
  >>


\* __main__ writing the reminder before it creates the feature class.
main_reminder_first ==
  << AddMessage("\n")
  ,  AddWarning("************************************************************")
  ,  AddWarning("REMINDER: Manually set feature extent to district boundary")
  ,  AddWarning("          for new feature classes")
  ,  AddWarning("REMINDER: Manually import metadata from template file geodatabase")
  ,  AddWarning("************************************************************")
  ,  AddMessage("\n")
  ,  call("create_databases_well_permits")
  >>

\* __main__ with the call of create_databases_erp left uncommented.
main_with_erp ==
  << call("create_databases_erp")
  ,  call("create_databases_well_permits")
  ,  AddMessage("\n")
  ,  AddWarning("************************************************************")
  ,  AddWarning("REMINDER: Manually set feature extent to district boundary")
  ,  AddWarning("          for new feature classes")
  ,  AddWarning("REMINDER: Manually import metadata from template file geodatabase")
  ,  AddWarning("************************************************************")
  ,  AddMessage("\n")
  >>

\* The __main__ block: the one create call that is not commented out, then
\* the reminder.
main ==
  << call("create_databases_well_permits")
  ,  AddMessage("\n")
  ,  AddWarning("************************************************************")
  ,  AddWarning("REMINDER: Manually set feature extent to district boundary")
  ,  AddWarning("          for new feature classes")
  ,  AddWarning("REMINDER: Manually import metadata from template file geodatabase")
  ,  AddWarning("************************************************************")
  ,  AddMessage("\n")
  >>

Procedures ==
  { "create_databases_erp", "create_databases_erp_site",
    "create_databases_erp_site_40a_4", "create_databases_erp_site_40a_44",
    "create_databases_erp_site_62_330", "create_databases_erp_site_forestry",
    "create_databases_mssw", "create_databases_reg_station",
    "create_databases_well_inventory", "create_databases_well_permits",
    "create_databases_wup_permitted", "create_databases_wup_surface",
    "create_databases_wup_wells" }

\* The statements of the function named f.
Statements(f) ==
  CASE f = "create_databases_erp" -> create_databases_erp
    [] f = "create_databases_erp_site" -> create_databases_erp_site
    [] f = "create_databases_erp_site_40a_4" -> create_databases_erp_site_40a_4
    [] f = "create_databases_erp_site_40a_44" -> create_databases_erp_site_40a_44
    [] f = "create_databases_erp_site_62_330" -> create_databases_erp_site_62_330
    [] f = "create_databases_erp_site_forestry" -> create_databases_erp_site_forestry
    [] f = "create_databases_mssw" -> create_databases_mssw
    [] f = "create_databases_reg_station" -> create_databases_reg_station
    [] f = "create_databases_well_inventory" -> create_databases_well_inventory
    [] f = "create_databases_well_permits" -> create_databases_well_permits
    [] f = "create_databases_wup_permitted" -> create_databases_wup_permitted
    [] f = "create_databases_wup_surface" -> create_databases_wup_surface
    [] f = "create_databases_wup_wells" -> create_databases_wup_wells

\* The name constant each procedure creates its feature class under.
FCName(f) ==
  CASE f = "create_databases_erp" -> FC_NAME_ERP
    [] f = "create_databases_erp_site" -> FC_NAME_ERP_SITE
    [] f = "create_databases_erp_site_40a_4" -> FC_NAME_ERP_SITE_40A_4
    [] f = "create_databases_erp_site_40a_44" -> FC_NAME_ERP_SITE_40A_44
    [] f = "create_databases_erp_site_62_330" -> FC_NAME_ERP_SITE_62_330
    [] f = "create_databases_erp_site_forestry" -> FC_NAME_ERP_SITE_FORESTRY
    [] f = "create_databases_mssw" -> FC_NAME_MSSW
    [] f = "create_databases_reg_station" -> FC_NAME_REG_STATION
    [] f = "create_databases_well_inventory" -> FC_NAME_WI
    [] f = "create_databases_well_permits" -> FC_NAME_WPS
    [] f = "create_databases_wup_permitted" -> FC_NAME_WUP_PERMITTED
    [] f = "create_databases_wup_surface" -> FC_NAME_WUP_SURFACE
    [] f = "create_databases_wup_wells" -> FC_NAME_WUP_WELLS

FCNames == { FCName(f) : f \in Procedures }

(***************************************************************************)
(* The geodatabase                                                         *)
(***************************************************************************)
Datasets == { os_path_join(OUTPUT_GEODATABASE, n) : n \in FCNames }

Absent ==
  [exists |-> FALSE, geometry_type |-> "", spatial_reference |-> 0,
   columns |-> <<>>, indexes |-> <<>>, view |-> {}, edit |-> {}, rows |-> 0]

\* The dataset a call works on.
Target(c) ==
  CASE c.op = "CreateFeatureclass" -> os_path_join(c.out_path, c.out_name)
    [] c.op = "AddField" -> c.in_table
    [] c.op = "AddIndex" -> c.in_table
    [] c.op = "ChangePrivileges" -> c.in_dataset

ColumnNames(fc) == { fc.columns[k][1] : k \in 1..Len(fc.columns) }

\* CreateFeatureclass keeping the rows of the feature class it replaces.
GdbCreate_keeps_rows(g, c) ==
  [g EXCEPT ![Target(c)] =
     [exists |-> TRUE, geometry_type |-> c.geometry_type,
      spatial_reference |-> c.spatial_reference, columns |-> <<>>,
      indexes |-> <<>>, view |-> {}, edit |-> {}, rows |-> @.rows]]

\* A successful CreateFeatureclass leaves a new, empty feature class with no
\* user columns, no attribute indexes and no grants (replacing an older one
\* where the environment allows overwriting).
GdbCreate(g, c) ==
  [g EXCEPT ![Target(c)] =
     [exists |-> TRUE, geometry_type |-> c.geometry_type,
      spatial_reference |-> c.spatial_reference, columns |-> <<>>,
      indexes |-> <<>>, view |-> {}, edit |-> {}, rows |-> 0]]

GdbAddField(g, c) ==
  [g EXCEPT ![c.in_table].columns =
     Append(@, <<c.field_name, c.field_type, c.field_precision, c.field_scale,
                 c.field_length, c.field_alias, c.field_is_nullable,
                 c.field_is_required, c.field_domain>>)]

GdbAddIndex(g, c) ==
  [g EXCEPT ![c.in_table].indexes =
     Append(@, [fields |-> c.fields, index_name |-> c.index_name])]

Privilege(roles, user, change) ==
  CASE change = "GRANT" -> roles \cup {user}
    [] change = "REVOKE" -> roles \ {user}
    [] change = "AS_IS" -> roles

GdbChangePrivileges(g, c) ==
  [g EXCEPT ![c.in_dataset].view = Privilege(@, c.user, c.View),
            ![c.in_dataset].edit = Privilege(@, c.user, c.Edit)]

\* The effect of a geodatabase call that returns normally.
Effect(g, c) ==
  CASE c.op = "CreateFeatureclass" -> GdbCreate(g, c)
    [] c.op = "AddField" -> GdbAddField(g, c)
    [] c.op = "AddIndex" -> GdbAddIndex(g, c)
    [] c.op = "ChangePrivileges" -> GdbChangePrivileges(g, c)

\* Whether the geodatabase can accept the call at all.  A call it can accept
\* may still raise (lost connection, lock, missing privilege).
CanSucceed(g, c) ==
  /\ Target(c) \in DOMAIN g
  /\ c.op # "CreateFeatureclass" => g[Target(c)].exists
  /\ c.op = "AddField" => c.field_name \notin ColumnNames(g[c.in_table])

NoException == [type |-> "none", call |-> <<>>]
ExecuteError(c) == [type |-> "ExecuteError", call |-> <<c>>]

(***************************************************************************)
(* Control                                                                 *)
(***************************************************************************)
\* Body skipping the creation when the feature class is already there.
Body_skip_existing ==
  IF proc = "add_fields" THEN <<add_fields(args[1], args[2])>>
  ELSE IF proc \in Procedures /\ gdb[os_path_join(OUTPUT_GEODATABASE, FCName(proc))].exists
       THEN SelectSeq(Statements(proc), LAMBDA s : s.op # "CreateFeatureclass")
       ELSE Statements(proc)

\* The statements being executed.
Body == IF proc = "add_fields" THEN <<add_fields(args[1], args[2])>>
        ELSE Statements(proc)

Running == status \in {"main", "direct"} /\ proc # "none"
AtStatement(o) == Running /\ ip <= Len(Body) /\ Body[ip].op = o

\* Propagate with the exception swallowed: execution goes on.
Propagate_swallow(ok, n) == [status |-> status, next |-> n + 1]

\* Propagate with the failed call tried again.
Propagate_retry(ok, n) == [status |-> status, next |-> IF ok THEN n + 1 ELSE n]

\* No statement is inside a try block: a call that raises ends the run,
\* a call that returns moves on to statement n + 1.
Propagate(ok, n) ==
  [status |-> IF ok THEN status ELSE "raised", next |-> IF ok THEN n + 1 ELSE n]

\* AddFieldCall with alias and domain taken from each other's position.
AddFieldCall_alias_domain_swapped(table, field_spec) ==
  AddField_management(table, field_spec[1], field_spec[2], field_spec[3],
                      field_spec[4], field_spec[5], field_spec[9],
                      field_spec[7], field_spec[8], field_spec[6])

\* The argument list add_fields passes to AddField for one field_spec.
AddFieldCall(table, field_spec) ==
  AddField_management(table, field_spec[1], field_spec[2], field_spec[3],
                      field_spec[4], field_spec[5], field_spec[6],
                      field_spec[7], field_spec[8], field_spec[9])

\* Issue geodatabase call c from a statement of the body (not the loop).
Issue(c) ==
  \E ok \in BOOLEAN :
    /\ ok => CanSucceed(gdb, c)
    /\ calls' = Append(calls, c)
    /\ gdb' = IF ok THEN Effect(gdb, c) ELSE gdb
    /\ exc' = IF ok THEN exc ELSE ExecuteError(c)
    /\ status' = Propagate(ok, ip).status
    /\ ip' = Propagate(ok, ip).next
    /\ created' = IF ok /\ c.op = "CreateFeatureclass"
                  THEN created \cup {Target(c)} ELSE created

ProcAddMessage ==
  /\ AtStatement("AddMessage")
  /\ messages' = Append(messages, Body[ip].message)
  /\ ip' = ip + 1
  /\ UNCHANGED <<gdb, status, mainip, proc, args, i, calls, exc, invocations, created>>

CreateFeatureclass ==
  /\ AtStatement("CreateFeatureclass")
  /\ Issue(Body[ip])
  /\ UNCHANGED <<mainip, proc, args, i, messages, invocations>>

\* One iteration of the loop of add_fields.
AddField ==
  /\ AtStatement("add_fields")
  /\ i < Len(Body[ip].fields_spec)
  /\ LET field_spec == Body[ip].fields_spec[i + 1]
         c == AddFieldCall(Body[ip].table, field_spec)
     IN  /\ messages' = Append(messages, "\t\tAdding " \o field_spec[1])
         /\ \E ok \in BOOLEAN :
              /\ ok => CanSucceed(gdb, c)
              /\ calls' = Append(calls, c)
              /\ gdb' = IF ok THEN Effect(gdb, c) ELSE gdb
              /\ exc' = IF ok THEN exc ELSE ExecuteError(c)
              /\ status' = Propagate(ok, i).status
              /\ i' = Propagate(ok, i).next
  /\ UNCHANGED <<mainip, proc, args, ip, invocations, created>>

\* The loop of add_fields is exhausted: add_fields returns.
AddFieldsReturn ==
  /\ AtStatement("add_fields")
  /\ i = Len(Body[ip].fields_spec)
  /\ i' = 0
  /\ ip' = ip + 1
  /\ UNCHANGED <<gdb, status, mainip, proc, args, calls, messages, exc, invocations, created>>

AddIndex ==
  /\ AtStatement("AddIndex")
  /\ Issue(Body[ip])
  /\ UNCHANGED <<mainip, proc, args, i, messages, invocations>>

ChangePrivileges ==
  /\ AtStatement("ChangePrivileges")
  /\ Issue(Body[ip])
  /\ UNCHANGED <<mainip, proc, args, i, messages, invocations>>

\* The function has run off its last statement.
Return ==
  /\ Running
  /\ ip > Len(Body)
  /\ proc' = "none"
  /\ args' = <<>>
  /\ ip' = 0
  /\ mainip' = IF status = "main" THEN mainip + 1 ELSE mainip
  /\ status' = CASE status = "main" -> status
                  [] proc = "add_fields" -> "done"
                  [] OTHER -> "idle"
  /\ UNCHANGED <<gdb, i, calls, messages, exc, invocations, created>>

\* The file is run as a script.
RunMain ==
  /\ status = "idle"
  /\ invocations = 0
  /\ status' = "main"
  /\ mainip' = 1
  /\ UNCHANGED <<gdb, proc, args, ip, i, calls, messages, exc, invocations, created>>

AtMain(ops) ==
  /\ status = "main"
  /\ proc = "none"
  /\ mainip \in 1..Len(main)
  /\ main[mainip].op \in ops

MainCall ==
  /\ AtMain({"call"})
  /\ proc' = main[mainip].f
  /\ ip' = 1
  /\ calls' = <<>>
  /\ UNCHANGED <<gdb, status, mainip, args, i, messages, exc, invocations, created>>

MainMessage ==
  /\ AtMain({"AddMessage", "AddWarning"})
  /\ messages' = Append(messages, main[mainip].message)
  /\ mainip' = mainip + 1
  /\ UNCHANGED <<gdb, status, proc, args, ip, i, calls, exc, invocations, created>>

MainExit ==
  /\ status = "main"
  /\ proc = "none"
  /\ mainip > Len(main)
  /\ status' = "done"
  /\ UNCHANGED <<gdb, mainip, proc, args, ip, i, calls, messages, exc, invocations, created>>

\* A create procedure is called directly (the module's functions are what
\* the commented-out lines of __main__ select from); a run makes up to
\* MaxInvocations such calls, one after another.
Invoke(f) ==
  /\ status = "idle"
  /\ invocations < MaxInvocations
  /\ status' = "direct"
  /\ proc' = f
  /\ args' = <<>>
  /\ ip' = 1
  /\ calls' = <<>>
  /\ invocations' = invocations + 1
  /\ UNCHANGED <<gdb, mainip, i, messages, exc, created>>

\* Inputs of a direct call of add_fields.
FieldSpecPool ==
  << fields_spec_mssw[1]
  ,  <<"col_a", "DOUBLE", 10, 2, "", "Alias A", TRUE, FALSE, "dom_a">>
  ,  <<"col_b", "TEXT", "", "", 16, "Alias B", FALSE, TRUE, "dom_b">>
  >>

FieldsSpecs ==
  UNION { { [k \in 1..n |-> FieldSpecPool[f[k]]] :
            f \in [1..n -> 1..Len(FieldSpecPool)] } : n \in 0..MaxLen }

Tables == { fc_mssw, fc_wps }

\* add_fields is called directly, as the one call of a run, on a table the
\* geodatabase may or may not hold.
InvokeAddFields(table, fields_spec) ==
  /\ status = "idle"
  /\ invocations = 0
  /\ status' = "direct"
  /\ proc' = "add_fields"
  /\ args' = <<table, fields_spec>>
  /\ ip' = 1
  /\ calls' = <<>>
  /\ invocations' = invocations + 1
  /\ UNCHANGED <<gdb, mainip, i, messages, exc, created>>

\* What the geodatabase may hold before the run: nothing, or older copies of
\* two of the feature classes, populated and readable.
EmptyGeodatabase == [d \in Datasets |-> Absent]

OldFeatureClass(fields_spec) ==
  [exists |-> TRUE, geometry_type |-> "POINT", spatial_reference |-> UTM_16N_NAD83,
   columns |-> SubSeq(fields_spec, 1, 2), indexes |-> <<>>,
   view |-> {"GIS_READ"}, edit |-> {}, rows |-> PriorRows]

PriorGeodatabases ==
  { EmptyGeodatabase,
    [EmptyGeodatabase EXCEPT ![fc_wps] = OldFeatureClass(fields_spec_well_permits),
                             ![fc_mssw] = OldFeatureClass(fields_spec_mssw)] }

Init ==
  /\ gdb \in PriorGeodatabases
  /\ status = "idle"
  /\ mainip = 0
  /\ proc = "none"
  /\ args = <<>>
  /\ ip = 0
  /\ i = 0
  /\ calls = <<>>
  /\ messages = <<>>
  /\ exc = NoException
  /\ invocations = 0
  /\ created = {}

Next ==
  \/ RunMain
  \/ MainCall
  \/ MainMessage
  \/ MainExit
  \/ \E f \in Procedures : Invoke(f)
  \/ \E table \in Tables, fields_spec \in FieldsSpecs : InvokeAddFields(table, fields_spec)
  \/ ProcAddMessage
  \/ CreateFeatureclass
  \/ AddField
  \/ AddFieldsReturn
  \/ AddIndex
  \/ ChangePrivileges
  \/ Return

Spec == Init /\ [][Next]_vars

TypeOK ==
  /\ status \in {"idle", "main", "direct", "done", "raised"}
  /\ proc \in Procedures \cup {"none", "add_fields"}
  /\ DOMAIN gdb = Datasets
  /\ invocations \in 0..MaxInvocations
  /\ created \subseteq Datasets

(***************************************************************************)
(* Vocabulary of the properties                                            *)
(***************************************************************************)
Last(s) == s[Len(s)]
Ops(s) == [k \in 1..Len(s) |-> s[k].op]
Repeat(x, n) == [k \in 1..n |-> x]
IsPrefix(s, t) == Len(s) <= Len(t) /\ s = SubSeq(t, 1, Len(s))

\* The dataset of a procedure's own feature class.
OwnDataset(f) == os_path_join(OUTPUT_GEODATABASE, FCName(f))

\* The add_fields statement of a create procedure, and its column list.
AddFieldsStatement(f) ==
  LET S == Statements(f)
  IN  S[CHOOSE k \in 1..Len(S) : S[k].op = "add_fields"]

ColumnLists == [f \in Procedures |-> AddFieldsStatement(f).fields_spec]

ColumnList(f) == ColumnLists[f]

IndexedProcedures ==
  { "create_databases_reg_station", "create_databases_well_inventory",
    "create_databases_well_permits" }

IndexCount(f) == IF f \in IndexedProcedures THEN 2 ELSE 0

\* Every statement of f has been executed and none has raised.
Completed(f) ==
  /\ proc = f
  /\ status \in {"main", "direct"}
  /\ ip > Len(Body)

\* C1 (as stated): a failure-free invocation of any of the 13 create
\* procedures issues exactly CreateFeatureclass, then one AddField per column
\* of its list, then ChangePrivileges, and nothing else.
C1_CreateFieldsPrivilegesOnly ==
  \A f \in Procedures :
    Completed(f) =>
      Ops(calls) = <<"CreateFeatureclass">>
                   \o Repeat("AddField", Len(ColumnList(f)))
                   \o <<"ChangePrivileges">>

\* C1 (amended): the calls of an invocation are, in order, one
\* CreateFeatureclass, the AddField calls of the column list in list order,
\* then two AddIndex calls in reg_station, well_inventory and well_permits
\* (none elsewhere), then one ChangePrivileges, which is the last call; at
\* every moment the calls issued so far are a prefix of that sequence, so no
\* AddField, AddIndex or ChangePrivileges precedes the return of
\* CreateFeatureclass.
C1_Expected ==
  [f \in Procedures |->
     <<"CreateFeatureclass">>
     \o Repeat("AddField", Len(ColumnList(f)))
     \o Repeat("AddIndex", IndexCount(f))
     \o <<"ChangePrivileges">>]

C1_ExpectedOps(f) == C1_Expected[f]

C1_CallOrder ==
  \A f \in Procedures :
    proc = f =>
      /\ IsPrefix(Ops(calls), C1_ExpectedOps(f))
      /\ \A k \in 1..Len(calls) :
           calls[k].op = "AddField" => calls[k].field_name = ColumnList(f)[k - 1][1]
      /\ Completed(f) => Len(calls) = Len(C1_ExpectedOps(f))

C1_Witness ==
  /\ Completed("create_databases_reg_station")
  /\ Len(calls) = 47
  /\ Last(calls).op = "ChangePrivileges"

\* C2: a geodatabase call that raises ends the run with exactly the exception
\* of that call, no further geodatabase call is issued afterwards, and a
\* ChangePrivileges call is only ever issued on a feature class that exists
\* with its whole column list and all of its indexes.
C2_State ==
  /\ exc # NoException =>
       /\ status = "raised"
       /\ calls # <<>>
       /\ exc = [type |-> "ExecuteError", call |-> <<Last(calls)>>]
  /\ \A f \in Procedures :
       proc = f =>
         \A k \in 1..Len(calls) :
           calls[k].op = "ChangePrivileges" =>
             LET fc == gdb[OwnDataset(f)]
             IN  /\ fc.exists
                 /\ OwnDataset(f) \in created
                 /\ Len(fc.columns) = Len(ColumnList(f))
                 /\ \A j \in 1..Len(fc.columns) : fc.columns[j][1] = ColumnList(f)[j][1]
                 /\ Len(fc.indexes) = IndexCount(f)

C2_Step == exc # NoException => calls' = calls /\ gdb' = gdb /\ exc' = exc

C2_FailurePropagates == []C2_State /\ [][C2_Step]_vars

C2_Witness ==
  /\ status = "raised"
  /\ proc = "create_databases_reg_station"
  /\ Last(calls).op = "AddIndex"
  /\ Len(gdb[OwnDataset(proc)].indexes) = 1
  /\ gdb[OwnDataset(proc)].view = {}

\* C3 (as stated): __main__ invokes every create procedure, and after a
\* failure-free run all 13 feature classes have been created.
C3_MainCreatesAll == (status = "done" /\ mainip > 0) => created = Datasets

\* C3 (amended): __main__ invokes create_databases_well_permits only, and
\* after a failure-free run the run has created GIS.DATABASES_WELL_PERMITS
\* and none of the other twelve feature classes.
C3_MainCreatesWellPermitsOnly ==
  /\ (status \in {"main", "done"} /\ mainip > 0) =>
       /\ proc \in {"none", "create_databases_well_permits"}
       /\ created \subseteq {os_path_join(OUTPUT_GEODATABASE, FC_NAME_WPS)}
  /\ (status = "done" /\ mainip > 0) =>
       /\ created = {os_path_join(OUTPUT_GEODATABASE, FC_NAME_WPS)}
       /\ Len(gdb[os_path_join(OUTPUT_GEODATABASE, FC_NAME_WPS)].columns) = 44

C3_Witness ==
  /\ status = "done"
  /\ mainip > Len(main)
  /\ exc = NoException
  /\ "GIS_READ" \in gdb[fc_wps].view

\* C4: add_fields(table, fields_spec) issues one AddField call per element of
\* fields_spec, in list order, each against table and each carrying the nine
\* components of its descriptor in the positions name, type, precision,
\* scale, length, alias, nullable, required, domain; when it returns it has
\* issued exactly Len(fields_spec) calls, none for the empty list.
C4_Active ==
  IF proc = "add_fields" THEN [table |-> args[1], fields_spec |-> args[2]]
  ELSE [table |-> AddFieldsStatement(proc).table,
        fields_spec |-> AddFieldsStatement(proc).fields_spec]

C4_AddFieldCalls == SelectSeq(calls, LAMBDA c : c.op = "AddField")

C4_AddFieldsPassThrough ==
  proc \in Procedures \cup {"add_fields"} =>
    LET A == C4_Active
        F == C4_AddFieldCalls
    IN  /\ Len(F) <= Len(A.fields_spec)
        /\ \A k \in 1..Len(F) :
             /\ F[k].in_table = A.table
             /\ F[k].field_name = A.fields_spec[k][1]
             /\ F[k].field_type = A.fields_spec[k][2]
             /\ F[k].field_precision = A.fields_spec[k][3]
             /\ F[k].field_scale = A.fields_spec[k][4]
             /\ F[k].field_length = A.fields_spec[k][5]
             /\ F[k].field_alias = A.fields_spec[k][6]
             /\ F[k].field_is_nullable = A.fields_spec[k][7]
             /\ F[k].field_is_required = A.fields_spec[k][8]
             /\ F[k].field_domain = A.fields_spec[k][9]
        /\ Completed(proc) => Len(F) = Len(A.fields_spec)
        /\ proc = "add_fields" => Len(calls) = Len(F)

C4_Witness ==
  /\ Completed("add_fields")
  /\ Len(args[2]) = 2
  /\ Len(calls) = 2
  /\ calls[1].field_name = "col_b"
  /\ calls[2].field_name = "col_a"

\* C5: every geodatabase call of a create procedure names the procedure's own
\* feature class inside OUTPUT_GEODATABASE, and no step of the procedure
\* changes any other dataset of the geodatabase.
C5_State ==
  \A f \in Procedures :
    proc = f =>
      \A k \in 1..Len(calls) :
        LET c == calls[k]
        IN  /\ c.op = "CreateFeatureclass" =>
                 c.out_path = OUTPUT_GEODATABASE /\ c.out_name = FCName(f)
            /\ c.op \in {"AddField", "AddIndex"} => c.in_table = OwnDataset(f)
            /\ c.op = "ChangePrivileges" => c.in_dataset = OwnDataset(f)

C5_Step ==
  proc \in Procedures =>
    \A d \in Datasets \ {OwnDataset(proc)} : gdb'[d] = gdb[d]

C5_SelfContained == []C5_State /\ [][C5_Step]_vars

C5_Witness ==
  /\ Completed("create_databases_well_inventory")
  /\ gdb[fc_erp_site].exists
  /\ Len(gdb[fc_erp_site].columns) = 24
  /\ gdb[fc_erp_site].view = {"GIS_READ"}
  /\ Len(gdb[fc_wi].indexes) = 2


\* C6: every CreateFeatureclass call asks for geometry type POINT, spatial
\* reference EPSG 26916 and output path OUTPUT_GEODATABASE, and every feature
\* class created in the run is a POINT feature class in that spatial
\* reference inside that geodatabase.
C6_PointUtm16OutputGeodatabase ==
  /\ \A k \in 1..Len(calls) :
       calls[k].op = "CreateFeatureclass" =>
         /\ calls[k].geometry_type = "POINT"
         /\ calls[k].spatial_reference = 26916
         /\ calls[k].out_path = "Database Connections\\orcl$gis.sde"
  /\ \A d \in created :
       /\ d \in Datasets
       /\ gdb[d].geometry_type = "POINT"
       /\ gdb[d].spatial_reference = 26916

C6_Witness ==
  /\ Completed("create_databases_wup_wells")
  /\ Cardinality(created) = 2
  /\ fc_wup_wells \in created

\* C7: within one invocation of a create procedure CreateFeatureclass and
\* ChangePrivileges are issued at most once each, no column name is passed to
\* AddField twice and no index name to AddIndex twice, whether the calls
\* return or raise.
C7_Positions(o) == { k \in 1..Len(calls) : calls[k].op = o }

C7_NoRetry ==
  proc \in Procedures =>
    /\ Cardinality(C7_Positions("CreateFeatureclass")) <= 1
    /\ Cardinality(C7_Positions("ChangePrivileges")) <= 1
    /\ \A j, k \in C7_Positions("AddField") :
         calls[j].field_name = calls[k].field_name => j = k
    /\ \A j, k \in C7_Positions("AddIndex") :
         calls[j].index_name = calls[k].index_name => j = k

C7_Witness ==
  /\ status = "raised"
  /\ proc = "create_databases_well_permits"
  /\ Len(calls) = 46
  /\ Last(calls).op = "AddIndex"
  /\ gdb[fc_wps].indexes = <<>>

\* C8: the calls a create procedure has issued, with their arguments, are
\* always the first calls of one fixed list that depends on the procedure
\* alone, whatever the geodatabase held before and holds now; so two runs
\* that see no failure issue the same calls.
RECURSIVE C8_Script(_)
C8_Script(S) ==
  IF S = <<>> THEN <<>>
  ELSE LET s == Head(S)
       IN  (CASE s.op \in {"AddMessage", "AddWarning"} -> <<>>
              [] s.op = "add_fields" ->
                   [k \in 1..Len(s.fields_spec) |->
                      [op |-> "AddField", in_table |-> s.table,
                       field_name |-> s.fields_spec[k][1],
                       field_type |-> s.fields_spec[k][2],
                       field_precision |-> s.fields_spec[k][3],
                       field_scale |-> s.fields_spec[k][4],
                       field_length |-> s.fields_spec[k][5],
                       field_alias |-> s.fields_spec[k][6],
                       field_is_nullable |-> s.fields_spec[k][7],
                       field_is_required |-> s.fields_spec[k][8],
                       field_domain |-> s.fields_spec[k][9]]]
              [] OTHER -> <<s>>)
           \o C8_Script(Tail(S))

C8_Scripts == [f \in Procedures |-> C8_Script(Statements(f))]

C8_NoBranchOnData ==
  \A f \in Procedures :
    proc = f =>
      /\ IsPrefix(calls, C8_Scripts[f])
      /\ Completed(f) => calls = C8_Scripts[f]

C8_Witness ==
  /\ Completed("create_databases_mssw")
  /\ gdb[fc_wps].rows = PriorRows
  /\ gdb[fc_mssw].rows = 0
  /\ Len(calls) = 8

\* C9: every ChangePrivileges call names user GIS_READ with View GRANT and
\* Edit AS_IS, and the step that issues it leaves the edit privileges of
\* every dataset as they were and adds no role other than GIS_READ to any
\* view privilege.
C9_State ==
  \A k \in 1..Len(calls) :
    calls[k].op = "ChangePrivileges" =>
      /\ calls[k].user = "GIS_READ"
      /\ calls[k].View = "GRANT"
      /\ calls[k].Edit = "AS_IS"

C9_Step ==
  (Len(calls') = Len(calls) + 1 /\ calls'[Len(calls')].op = "ChangePrivileges") =>
    \A d \in Datasets :
      /\ gdb'[d].edit = gdb[d].edit
      /\ gdb'[d].view \subseteq gdb[d].view \cup {"GIS_READ"}

C9_GrantsReadOnly == []C9_State /\ [][C9_Step]_vars

C9_Witness ==
  /\ Completed("create_databases_erp")
  /\ gdb[fc_erp].view = {"GIS_READ"}
  /\ gdb[fc_erp].edit = {}
  /\ Last(calls).op = "ChangePrivileges"

\* C10: every feature class created in the run holds zero rows, and no step
\* of the program adds a row to any dataset.
C10_State == \A d \in created : gdb[d].exists /\ gdb[d].rows = 0

C10_Step == \A d \in Datasets : gdb'[d].rows <= gdb[d].rows

C11_Positions(o) == { k \in 1..Len(calls) : calls[k].op = o }

C11_IndexNames(f) == <<FCName(f) \o "__I1", FCName(f) \o "__I2">>

C11_IndexesAfterFieldsBeforePrivileges ==
  \A f \in Procedures :
    proc = f =>
      LET I == C11_Positions("AddIndex")
      IN  /\ f \notin IndexedProcedures => I = {}
          /\ Cardinality(I) <= 2
          /\ \A k \in I :
               /\ Cardinality(C11_Positions("AddField")) = Len(ColumnList(f))
               /\ \A j \in C11_Positions("AddField") : j < k
               /\ \A j \in C11_Positions("ChangePrivileges") : k < j
               /\ calls[k].index_name =
                    C11_IndexNames(f)[Cardinality({ m \in I : m <= k })]
          /\ (Completed(f) /\ f \in IndexedProcedures) => Cardinality(I) = 2

C11_Witness ==
  /\ Completed("create_databases_well_inventory")
  /\ Len(gdb[fc_wi].indexes) = 2
  /\ gdb[fc_wi].indexes[1].index_name = "GIS.DATABASES_WELL_INVENTORY__I1"
  /\ gdb[fc_wi].indexes[2].index_name = "GIS.DATABASES_WELL_INVENTORY__I2"
  /\ calls[16].op = "AddIndex"

\* C12: every AddIndex call names a column that an earlier AddField call of
\* the same invocation added to the same feature class, column names being
\* compared without regard to case: FLUWID and LEGACY_PERMIT_NUMBER in
\* reg_station, NWF_ID and STATE_ID in well_inventory, FLUWID and
\* PERMIT_NUMBER in well_permits.
C12_LowerCase(s) ==
  CASE s = "FLUWID" -> "fluwid"
    [] s = "LEGACY_PERMIT_NUMBER" -> "legacy_permit_number"
    [] s = "NWF_ID" -> "nwf_id"
    [] s = "STATE_ID" -> "state_id"
    [] s = "PERMIT_NUMBER" -> "permit_number"
    [] OTHER -> s

C12_IndexedColumns(f) ==
  CASE f = "create_databases_reg_station" -> <<"FLUWID", "LEGACY_PERMIT_NUMBER">>
    [] f = "create_databases_well_inventory" -> <<"NWF_ID", "STATE_ID">>
    [] f = "create_databases_well_permits" -> <<"FLUWID", "PERMIT_NUMBER">>
    [] OTHER -> <<>>

C12_IndexOnAddedColumn ==
  \A f \in Procedures :
    proc = f =>
      LET I == { k \in 1..Len(calls) : calls[k].op = "AddIndex" }
      IN  \A k \in I :
            /\ Cardinality({ m \in I : m <= k }) <= Len(C12_IndexedColumns(f))
            /\ calls[k].fields = C12_IndexedColumns(f)[Cardinality({ m \in I : m <= k })]
            /\ \E j \in 1..(k - 1) :
                 /\ calls[j].op = "AddField"
                 /\ calls[j].in_table = calls[k].in_table
                 /\ calls[j].field_name = C12_LowerCase(calls[k].fields)
            /\ C12_LowerCase(calls[k].fields) \in ColumnNames(gdb[calls[k].in_table])

C12_Witness ==
  /\ Completed("create_databases_reg_station")
  /\ Len(gdb[fc_reg_station].indexes) = 2
  /\ gdb[fc_reg_station].indexes[1].fields = "FLUWID"
  /\ gdb[fc_reg_station].indexes[2].fields = "LEGACY_PERMIT_NUMBER"
  /\ "legacy_permit_number" \in ColumnNames(gdb[fc_reg_station])

\* C13: in a run of __main__ a reminder warning is written only after the
\* create procedure it invokes has returned with every call successful, and
\* a run that an exception ended has written no reminder.
C13_Reminders ==
  { "REMINDER: Manually set feature extent to district boundary",
    "          for new feature classes",
    "REMINDER: Manually import metadata from template file geodatabase" }

C13_ReminderWritten == \E k \in 1..Len(messages) : messages[k] \in C13_Reminders

C13_InvokedByMain ==
  { main[k].f : k \in { j \in 1..Len(main) : main[j].op = "call" } }

C13_RemindersAfterSuccess ==
  /\ C13_ReminderWritten =>
       /\ mainip > 0
       /\ status \in {"main", "done"}
       /\ proc = "none"
       /\ exc = NoException
       /\ \A f \in C13_InvokedByMain :
            /\ OwnDataset(f) \in created
            /\ "GIS_READ" \in gdb[OwnDataset(f)].view
            /\ Len(gdb[OwnDataset(f)].columns) = Len(ColumnList(f))
  /\ status = "raised" => ~C13_ReminderWritten
  /\ (status = "done" /\ mainip > 0) =>
       \A r \in C13_Reminders : \E k \in 1..Len(messages) : messages[k] = r

C13_Witness ==
  /\ status = "main"
  /\ mainip = Len(main)
  /\ C13_ReminderWritten
  /\ Len(calls) = 48

\* C14: the feature classes ERP_SITE_40A_4, ERP_SITE_40A_44, ERP_SITE_62_330
\* and ERP_SITE_FORESTRY, once created with all their columns, hold the same
\* columns in the same order with the same type, length and other settings,
\* and that column list is the one of ERP_SITE without its four columns
\* party_role, party_company_name, party_first_name and party_last_name.
C14_Subsets ==
  { os_path_join(OUTPUT_GEODATABASE, n) :
      n \in { FC_NAME_ERP_SITE_40A_4, FC_NAME_ERP_SITE_40A_44,
              FC_NAME_ERP_SITE_62_330, FC_NAME_ERP_SITE_FORESTRY } }

C14_ErpSite == os_path_join(OUTPUT_GEODATABASE, FC_NAME_ERP_SITE)

C14_Party ==
  { "party_role", "party_company_name", "party_first_name", "party_last_name" }

\* The procedure of dataset d has run to its grant in this run.
C14_Finished(d) == d \in created /\ "GIS_READ" \in gdb[d].view

C14_WithoutParty(columns) == SelectSeq(columns, LAMBDA c : c[1] \notin C14_Party)

C14_ErpSiteSubsetsAgree ==
  \A s \in C14_Subsets :
    C14_Finished(s) =>
      /\ \A t \in C14_Subsets :
           C14_Finished(t) => gdb[s].columns = gdb[t].columns
      /\ C14_Party \cap ColumnNames(gdb[s]) = {}
      /\ C14_Finished(C14_ErpSite) =>
           /\ C14_WithoutParty(gdb[C14_ErpSite].columns) = gdb[s].columns
           /\ C14_Party \subseteq ColumnNames(gdb[C14_ErpSite])
           /\ Len(gdb[C14_ErpSite].columns) = Len(gdb[s].columns) + 4

C14_Witness ==
  /\ C14_Finished(fc_erp_site)
  /\ C14_Finished(fc_erp_site_forestry)
  /\ Len(gdb[fc_erp_site].columns) = 24
  /\ Len(gdb[fc_erp_site_forestry].columns) = 20

\* C15: every AddField call for a column named location_method asks for type
\* TEXT with length 16, and every feature class created in the run that has
\* a column of that name has it as TEXT of length 16.
C15_LocationMethodWidth16 ==
  /\ \A k \in 1..Len(calls) :
       (calls[k].op = "AddField" /\ calls[k].field_name = "location_method") =>
         /\ calls[k].field_type = "TEXT"
         /\ calls[k].field_length = 16
  /\ \A d \in created :
       \A k \in 1..Len(gdb[d].columns) :
         gdb[d].columns[k][1] = "location_method" =>
           /\ gdb[d].columns[k][2] = "TEXT"
           /\ gdb[d].columns[k][5] = 16

C15_Witness ==
  /\ Completed("create_databases_reg_station")
  /\ Len(gdb[fc_reg_station].columns) = 43
  /\ gdb[fc_reg_station].columns[25][1] = "location_method"

\* C16: no column is declared or submitted with type FLOAT: the type of every
\* descriptor in the column list of a create procedure, and of every AddField
\* call the procedure issues, is one of TEXT, DOUBLE, LONG, SHORT and DATE.
C16_Types == { "TEXT", "DOUBLE", "LONG", "SHORT", "DATE" }

C16_NoFloatColumn ==
  /\ \A k \in 1..Len(calls) :
       (calls[k].op = "AddField" /\ proc \in Procedures) =>
         calls[k].field_type \in C16_Types
  /\ proc \in Procedures =>
       \A k \in 1..Len(ColumnList(proc)) : ColumnList(proc)[k][2] \in C16_Types

C16_Witness ==
  /\ Completed("create_databases_well_permits")
  /\ gdb[fc_wps].columns[33][1] = "section"
  /\ gdb[fc_wps].columns[33][2] = "SHORT"
  /\ gdb[fc_wps].columns[7][2] = "LONG"
=============================================================================
